---- MODULE Spec2Model ----
(***************************************************************************)
(* Model of the risk-engine frontend: the persisted portfolio store, the   *)
(* dashboard tabs, the VaR/ES and risk-analysis panels with their request  *)
(* builders, and the HTTP client's error interceptor.                      *)
(*                                                                         *)
(* JavaScript numbers are fixed-point: a number is a record                *)
(* [k |-> "num", v |-> i], standing for i / Scale; NaN and null are the    *)
(* records of kind "nan" and "null".  Texts (symbols, input values) are    *)
(* sequences of one-character strings.                                     *)
(***************************************************************************)
EXTENDS Integers, Sequences, FiniteSets, TLC

\* number of decimal digits kept after the point by the fixed-point numbers
FracDigits == 2

Scale == 10 ^ FracDigits

NaN == [k |-> "nan", v |-> 0]

Null == [k |-> "null", v |-> 0]

\* the JS number i / Scale
Fixed(i) == [k |-> "num", v |-> i]

\* the JS number i
N(i) == Fixed(i * Scale)

\* the JS number h / 100
Hundredths(h) == Fixed((h * Scale) \div 100)

\* Number.isNaN / isNaN on a number or null (isNaN(null) is false)
IsNaN(x) == x.k = "nan"

\* ToNumber: null converts to 0, numbers to themselves
ToNumber(x) == IF x.k = "null" THEN Fixed(0) ELSE x

\* a > b of JS: false whenever an operand is NaN
Gt(a, b) == /\ ~IsNaN(ToNumber(a))
            /\ ~IsNaN(ToNumber(b))
            /\ ToNumber(a).v > ToNumber(b).v

\* a <= b of JS: false whenever an operand is NaN
Le(a, b) == /\ ~IsNaN(ToNumber(a))
            /\ ~IsNaN(ToNumber(b))
            /\ ToNumber(a).v <= ToNumber(b).v

\* a < b of JS: false whenever an operand is NaN
Lt(a, b) == /\ ~IsNaN(ToNumber(a))
            /\ ~IsNaN(ToNumber(b))
            /\ ToNumber(a).v < ToNumber(b).v

\* Number.isInteger
IsInteger(x) == x.k = "num" /\ x.v % Scale = 0

(***************************************************************************)
(* Characters and texts                                                    *)
(***************************************************************************)
DigitChars == <<"0", "1", "2", "3", "4", "5", "6", "7", "8", "9">>

IsDigit(c) == \E i \in 1..10 : DigitChars[i] = c

DigitVal(c) == (CHOOSE i \in 1..10 : DigitChars[i] = c) - 1

LowerChars == <<"a", "b", "m">>

UpperChars == <<"A", "B", "M">>

\* String.prototype.toUpperCase on one character
ToUpperChar(c) ==
    IF \E i \in 1..Len(LowerChars) : LowerChars[i] = c
    THEN UpperChars[CHOOSE i \in 1..Len(LowerChars) : LowerChars[i] = c]
    ELSE c

\* String.prototype.toUpperCase
toUpperCase(s) == [i \in 1..Len(s) |-> ToUpperChar(s[i])]

\* the text from position i on
Drop(s, i) == SubSeq(s, i, Len(s))

\* length of the longest prefix of s made of digits
RECURSIVE DigitRun(_)
DigitRun(s) ==
    IF s = <<>> \/ ~IsDigit(Head(s)) THEN 0 ELSE 1 + DigitRun(Tail(s))

\* value of a text of digits read as a natural number
RECURSIVE DigitsValue(_)
DigitsValue(s) ==
    IF s = <<>> THEN 0
    ELSE DigitsValue(SubSeq(s, 1, Len(s) - 1)) * 10 + DigitVal(s[Len(s)])

\* value, in units of 1 / Scale, of a text of digits read as a decimal
\* fraction; digits beyond FracDigits are dropped
FractionValue(s) ==
    LET d == IF Len(s) > FracDigits THEN SubSeq(s, 1, FracDigits) ELSE s
    IN  DigitsValue(d) * (10 ^ (FracDigits - Len(d)))

\* the decimal digits of the natural number n
RECURSIVE NatToText(_)
NatToText(n) ==
    IF n < 10 THEN <<DigitChars[n + 1]>>
    ELSE NatToText(n \div 10) \o <<DigitChars[(n % 10) + 1]>>

\* a text of digits without its trailing zeros
RECURSIVE TrimZeros(_)
TrimZeros(s) ==
    IF s # <<>> /\ s[Len(s)] = "0" THEN TrimZeros(SubSeq(s, 1, Len(s) - 1))
    ELSE s

\* n written with exactly w digits (leading zeros)
RECURSIVE Pad(_, _)
Pad(s, w) == IF Len(s) >= w THEN s ELSE Pad(<<"0">> \o s, w)

\* Number.prototype.toString for a finite number
NumberToString(x) ==
    LET a    == IF x.v < 0 THEN -x.v ELSE x.v
        frac == TrimZeros(Pad(NatToText(a % Scale), FracDigits))
    IN  (IF x.v < 0 THEN <<"-">> ELSE <<>>)
        \o NatToText(a \div Scale)
        \o (IF frac = <<>> THEN <<>> ELSE <<".">> \o frac)

(***************************************************************************)
(* parseInt, parseFloat, Number on texts over digits, "-" and "."          *)
(***************************************************************************)
\* parseInt(s): optional sign, then the longest run of digits; NaN if none
parseInt(s) ==
    LET neg  == s # <<>> /\ Head(s) = "-"
        body == IF neg THEN Tail(s) ELSE s
        n    == DigitRun(body)
    IN  IF n = 0 THEN NaN
        ELSE N((IF neg THEN -1 ELSE 1) * DigitsValue(SubSeq(body, 1, n)))

\* parseFloat(s): optional sign, then the longest prefix that is a decimal
\* literal (digits, digits "." digits*, or "." digits); NaN if none
parseFloat(s) ==
    LET neg   == s # <<>> /\ Head(s) = "-"
        body  == IF neg THEN Tail(s) ELSE s
        n     == DigitRun(body)
        rest  == Drop(body, n + 1)
        dot   == rest # <<>> /\ Head(rest) = "."
        m     == IF dot THEN DigitRun(Tail(rest)) ELSE 0
        fracT == IF dot THEN SubSeq(Tail(rest), 1, m) ELSE <<>>
        mag   == DigitsValue(SubSeq(body, 1, n)) * Scale + FractionValue(fracT)
    IN  IF n = 0 /\ m = 0 THEN NaN
        ELSE Fixed((IF neg THEN -1 ELSE 1) * mag)

\* the whole text is a decimal literal: digits, digits ".", digits "." digits
\* or "." digits, after an optional sign
IsNumericLiteral(s) ==
    LET neg  == s # <<>> /\ Head(s) = "-"
        body == IF neg THEN Tail(s) ELSE s
        n    == DigitRun(body)
        rest == Drop(body, n + 1)
    IN  \/ n > 0 /\ rest = <<>>
        \/ /\ rest # <<>>
           /\ Head(rest) = "."
           /\ DigitRun(Tail(rest)) = Len(rest) - 1
           /\ n + Len(rest) - 1 > 0

\* Number(s): 0 for the empty text, the value of a numeric literal, else NaN
Number(s) ==
    IF s = <<>> THEN Fixed(0)
    ELSE IF IsNumericLiteral(s) THEN parseFloat(s)
    ELSE NaN

(***************************************************************************)
(* State                                                                   *)
(***************************************************************************)
VARIABLES
    holdings,        \* the store's Map symbol -> shares, in insertion order
    storage,         \* localStorage item 'risk-engine-portfolio'
    activeTab,       \* Dashboard: 'portfolio' | 'metrics' | 'analysis'
    metric,          \* RiskMetricsPanel form state
    method,
    confidence,
    horizonDays,
    lookbackDays,
    mcMode,
    simulations,
    dfT,
    varMutation,     \* useComputeVaR() mutation state
    esMutation,      \* useComputeES() mutation state
    aConfidence,     \* RiskAnalysisPanel form state
    aHorizonDays,
    aLookbackDays,
    includeBacktest,
    riskMutation,    \* useRiskAnalysis() mutation state
    crashed,         \* a render threw: React has unmounted the whole tree
    universeQuery,   \* the ['universe', query] query observed by TickerSearch
    selectedCompany, \* AddHoldingForm state
    formShares,      \* the shares text of AddHoldingForm
    editingSymbol,   \* HoldingsTable state
    editShares,
    badge,           \* RiskAssessmentBadge: props and what it shows
    backtest,        \* BacktestResults: props and what it shows
    facts,           \* RiskFactsDisplay: props and what it shows
    table,           \* ComponentVaRTable: props, sort state and rows shown
    decomposition,   \* the engine's Component-VaR decomposer: inputs and result
    estimate         \* the engine's VaR/ES estimator: inputs and result

storeVars == <<holdings, storage>>

metricsFormVars ==
    <<metric, method, confidence, horizonDays, lookbackDays, mcMode,
      simulations, dfT>>

metricsVars == <<metricsFormVars, varMutation, esMutation>>

analysisFormVars == <<aConfidence, aHorizonDays, aLookbackDays, includeBacktest>>

analysisVars == <<analysisFormVars, riskMutation>>

searchVars == <<universeQuery>>

portfolioFormVars == <<selectedCompany, formShares, editingSymbol, editShares>>

portfolioVars == <<searchVars, portfolioFormVars>>

resultsVars == <<badge, backtest, facts, table>>

uiVars ==
    <<activeTab, crashed, metricsVars, analysisVars, portfolioVars, resultsVars>>

engineVars == <<decomposition, estimate>>

vars == <<storeVars, uiVars, engineVars>>

(***************************************************************************)
(* Map<string, number> kept as a sequence of entries in insertion order    *)
(***************************************************************************)
MapHas(m, key) == \E i \in 1..Len(m) : m[i].symbol = key

MapGet(m, key) == m[CHOOSE i \in 1..Len(m) : m[i].symbol = key].shares

\* Map.prototype.set: an existing key keeps its position and takes the new
\* value, a new key goes last
MapSet(m, key, value) ==
    IF MapHas(m, key)
    THEN [i \in 1..Len(m) |->
            IF m[i].symbol = key THEN [symbol |-> key, shares |-> value]
            ELSE m[i]]
    ELSE Append(m, [symbol |-> key, shares |-> value])

\* Map.prototype.delete
MapDelete(m, key) ==
    LET Keep(e) == e.symbol # key IN SelectSeq(m, Keep)

\* new Map(entries): the entries are set one after the other
RECURSIVE MapFromEntries(_)
MapFromEntries(entries) ==
    IF entries = <<>> THEN <<>>
    ELSE LET last == entries[Len(entries)]
         IN  MapSet(MapFromEntries(SubSeq(entries, 1, Len(entries) - 1)),
                    last[1], last[2])

KeysOf(m) == {m[i].symbol : i \in 1..Len(m)}

(***************************************************************************)
(* persist middleware: JSON.stringify with the replacer, JSON.parse with   *)
(* the reviver                                                             *)
(***************************************************************************)
JSONNull == [t |-> "null", text |-> <<>>]

\* JSON.stringify of a number: its decimal text, or null when it is not finite
StringifyNumber(x) ==
    IF x.k = "num" THEN [t |-> "number", text |-> NumberToString(x)]
    ELSE JSONNull

\* JSON.parse of a number or null
ParseJSONValue(j) == IF j.t = "number" THEN Number(j.text) ELSE Null

\* replacer: a Map becomes the array of its [symbol, shares] entries
replacer(m) == [i \in 1..Len(m) |-> <<m[i].symbol, StringifyNumber(m[i].shares)>>]

\* reviver: the array under the key 'holdings' becomes a Map again
reviver(arr) ==
    MapFromEntries([i \in 1..Len(arr) |-> <<arr[i][1], ParseJSONValue(arr[i][2])>>])

\* what persist writes after every set()
Persisted(m) == [stored |-> TRUE, holdings |-> replacer(m)]

\* the store's holdings after hydration from the item (none: the empty Map)
Rehydrated(item) == IF item.stored THEN reviver(item.holdings) ELSE <<>>

(***************************************************************************)
(* usePortfolioStore                                                       *)
(***************************************************************************)
\* addHolding adding the shares to those already held
addHoldingAccumulate(m, symbol, shares) ==
    LET key == toUpperCase(symbol)
    IN  IF MapHas(m, key) /\ shares.k = "num" /\ MapGet(m, key).k = "num"
        THEN MapSet(m, key, Fixed(MapGet(m, key).v + shares.v))
        ELSE MapSet(m, key, shares)

addHoldingKeepCase(m, symbol, shares) == MapSet(m, symbol, shares)

addHolding(m, symbol, shares) == MapSet(m, toUpperCase(symbol), shares)

\* updateHolding keeping a symbol whose new shares are zero
updateHoldingZeroKept(m, symbol, shares) ==
    IF ~Lt(shares, N(0)) /\ ~IsNaN(shares) THEN MapSet(m, toUpperCase(symbol), shares)
    ELSE MapDelete(m, toUpperCase(symbol))

updateHolding(m, symbol, shares) ==
    IF Gt(shares, N(0)) THEN MapSet(m, toUpperCase(symbol), shares)
    ELSE MapDelete(m, toUpperCase(symbol))

\* removeHolding deleting the oldest entry, whatever the symbol
removeHoldingOldest(m, symbol) == IF m = <<>> THEN m ELSE Tail(m)

removeHolding(m, symbol) == MapDelete(m, toUpperCase(symbol))

clearHoldings == <<>>

\* the entries taken last to first
getHoldingsArrayReversed(m) ==
    [i \in 1..Len(m) |->
        [symbol |-> m[Len(m) + 1 - i].symbol, shares |-> m[Len(m) + 1 - i].shares]]

getHoldingsArray(m) == [i \in 1..Len(m) |-> [symbol |-> m[i].symbol, shares |-> m[i].shares]]

hasHoldings(m) == Len(m) > 0

(***************************************************************************)
(* Inputs                                                                  *)
(***************************************************************************)
\* symbols as callers of the store may spell them
RawSymbols == {<<"a", "b">>, <<"A", "B">>, <<"A", "b">>, <<"m">>, <<"M">>}

\* numbers as callers of the store may pass them: 0, -1, 0.5, 1, 2, NaN
ShareArgs == {N(0), N(-1), Fixed(Scale \div 2), N(1), N(2), NaN}

\* localStorage at start-up: no item, or a portfolio saved by an earlier visit
InitialStorage ==
    {[stored |-> FALSE, holdings |-> <<>>],
     Persisted(<<[symbol |-> <<"A", "B">>, shares |-> N(1)]>>)}

(***************************************************************************)
(* React Query mutation state                                              *)
(***************************************************************************)
\* status, variables, error, data and failureCount as useMutation returns them
\* (<<>> is undefined / null); requests counts the HTTP requests sent since
\* the last mutate call, outcome records how the last of them ended
IdleMutation ==
    [status |-> "idle", variables |-> <<>>, error |-> <<>>, data |-> <<>>,
     failureCount |-> 0, requests |-> 0, outcome |-> <<>>]

\* the query of useSearchUniverse before any fetch
IdleQuery ==
    [status |-> "idle", key |-> <<>>, error |-> <<>>, failureCount |-> 0,
     requests |-> 0]

\* a results component that is not rendered
Unmounted == [mounted |-> FALSE]

\* a JS boolean
JSBool(b) == [t |-> "boolean", checked |-> b]

\* the change event of a checkbox whose box has just become checked or not
\* (event.target.checked)
ChangeEvent(c) == [t |-> "object", checked |-> c]

\* ToBoolean: an object is truthy
Truthy(x) == IF x.t = "boolean" THEN x.checked ELSE TRUE

\* DEFAULT_PARAMS
DEFAULT_confidence == Hundredths(95)

DEFAULT_horizon_days == N(5)

DEFAULT_lookback_days == N(1260)

DEFAULT_simulations == N(100000)

DEFAULT_df_t == N(6)

\* useState initial values of RiskMetricsPanel
MetricsPanelMounted ==
    /\ metric = "var"
    /\ method = "historical"
    /\ confidence = DEFAULT_confidence
    /\ horizonDays = DEFAULT_horizon_days
    /\ lookbackDays = DEFAULT_lookback_days
    /\ mcMode = "bootstrap"
    /\ simulations = DEFAULT_simulations
    /\ dfT = DEFAULT_df_t
    /\ varMutation = IdleMutation
    /\ esMutation = IdleMutation

\* useState initial values of RiskAnalysisPanel
AnalysisPanelMounted ==
    /\ aConfidence = Hundredths(95)
    /\ aHorizonDays = N(5)
    /\ aLookbackDays = N(252)
    /\ includeBacktest = JSBool(TRUE)
    /\ riskMutation = IdleMutation

\* useState initial values of AddHoldingForm and HoldingsTable
PortfolioBuilderMounted ==
    /\ selectedCompany = <<>>
    /\ formShares = <<"1">>
    /\ editingSymbol = <<>>
    /\ editShares = <<>>

\* no analysis result is rendered
ResultsUnmounted ==
    /\ badge = Unmounted
    /\ backtest = Unmounted
    /\ facts = Unmounted
    /\ table = Unmounted

\* a panel that mounts starts from its useState initial values and from a
\* fresh mutation observer
MountMetricsPanel ==
    /\ metric' = "var"
    /\ method' = "historical"
    /\ confidence' = DEFAULT_confidence
    /\ horizonDays' = DEFAULT_horizon_days
    /\ lookbackDays' = DEFAULT_lookback_days
    /\ mcMode' = "bootstrap"
    /\ simulations' = DEFAULT_simulations
    /\ dfT' = DEFAULT_df_t
    /\ varMutation' = IdleMutation
    /\ esMutation' = IdleMutation

MountAnalysisPanel ==
    /\ aConfidence' = Hundredths(95)
    /\ aHorizonDays' = N(5)
    /\ aLookbackDays' = N(252)
    /\ includeBacktest' = JSBool(TRUE)
    /\ riskMutation' = IdleMutation

MountPortfolioBuilder ==
    /\ selectedCompany' = <<>>
    /\ formShares' = <<"1">>
    /\ editingSymbol' = <<>>
    /\ editShares' = <<>>

UnmountResults ==
    /\ badge' = Unmounted
    /\ backtest' = Unmounted
    /\ facts' = Unmounted
    /\ table' = Unmounted

\* the decomposer has not been given anything
NoDecomposition == [computed |-> FALSE]

\* the estimator has not been given anything
NoEstimate == [computed |-> FALSE]

\* the frontend after start-up, apart from the results components
InitFrontend ==
    /\ storage \in InitialStorage
    /\ holdings = Rehydrated(storage)
    /\ activeTab = "portfolio"
    /\ crashed = FALSE
    /\ MetricsPanelMounted
    /\ AnalysisPanelMounted
    /\ universeQuery = IdleQuery
    /\ PortfolioBuilderMounted

\* the application after start-up, apart from the results components
InitApp ==
    /\ InitFrontend
    /\ decomposition = NoDecomposition
    /\ estimate = NoEstimate

Init ==
    /\ InitApp
    /\ ResultsUnmounted

(***************************************************************************)
(* The store's operations, each followed by persist's write                *)
(***************************************************************************)
StoreSet(m) ==
    /\ holdings' = m
    /\ storage' = Persisted(m)

AddHolding(symbol, shares) ==
    /\ StoreSet(addHolding(holdings, symbol, shares))
    /\ UNCHANGED <<uiVars, engineVars>>

UpdateHolding(symbol, shares) ==
    /\ StoreSet(updateHolding(holdings, symbol, shares))
    /\ UNCHANGED <<uiVars, engineVars>>

RemoveHolding(symbol) ==
    /\ StoreSet(removeHolding(holdings, symbol))
    /\ UNCHANGED <<uiVars, engineVars>>

ClearHoldings ==
    /\ StoreSet(clearHoldings)
    /\ UNCHANGED <<uiVars, engineVars>>

\* page reload: the store is created again and hydrated from localStorage,
\* every component mounts afresh
Reload ==
    /\ holdings' = Rehydrated(storage)
    /\ activeTab' = "portfolio"
    /\ crashed' = FALSE
    /\ MountMetricsPanel
    /\ MountAnalysisPanel
    /\ universeQuery' = IdleQuery
    /\ MountPortfolioBuilder
    /\ UnmountResults
    /\ UNCHANGED <<storage, engineVars>>

NextStore ==
    \/ \E symbol \in RawSymbols, shares \in ShareArgs : AddHolding(symbol, shares)
    \/ \E symbol \in RawSymbols, shares \in ShareArgs : UpdateHolding(symbol, shares)
    \/ \E symbol \in RawSymbols : RemoveHolding(symbol)
    \/ ClearHoldings
    \/ Reload

\* the store driven through its API with arbitrary arguments
SpecStore == Init /\ [][NextStore]_vars

(***************************************************************************)
(* Claims about the store                                                  *)
(***************************************************************************)
\* C1: every key of the holdings map is its own upper-casing and no two
\* entries have the same upper-cased symbol, so getHoldingsArray never
\* returns two holdings with the same symbol.
C1_KeysUpperCasedAndUnique ==
    /\ \A i \in 1..Len(holdings) :
          holdings[i].symbol = toUpperCase(holdings[i].symbol)
    /\ \A i, j \in 1..Len(holdings) :
          toUpperCase(holdings[i].symbol) = toUpperCase(holdings[j].symbol) => i = j
    /\ \A i, j \in 1..Len(getHoldingsArray(holdings)) :
          getHoldingsArray(holdings)[i].symbol = getHoldingsArray(holdings)[j].symbol
             => i = j

\* two symbols are held, one of them AB with the shares of the last write
C1_Witness ==
    /\ Len(holdings) = 2
    /\ MapHas(holdings, <<"A", "B">>)
    /\ MapGet(holdings, <<"A", "B">>) = N(2)

\* C2: every entry of the holdings map has shares > 0.
C2_SharesPositive ==
    \A i \in 1..Len(holdings) : Gt(holdings[i].shares, N(0))

\* C9: what persist has written revives to the portfolio held by the store:
\* same symbols, same shares, same order.
C9_PersistRoundTrip ==
    storage.stored => Rehydrated(storage) = holdings

\* the entries of every symbol but this one are the same before and after
OthersUnchanged(before, after, symbol) ==
    \A key \in (KeysOf(before) \cup KeysOf(after)) \ {toUpperCase(symbol)} :
        /\ MapHas(before, key)
        /\ MapHas(after, key)
        /\ MapGet(after, key) = MapGet(before, key)

\* position of a key in the map
IndexOf(m, key) == CHOOSE i \in 1..Len(m) : m[i].symbol = key

\* C21: addHolding(s, n) on a symbol already held replaces its shares by n,
\* keeps the number of entries and the symbol's position, and every
\* single-symbol operation of the store leaves the shares of every other
\* symbol as they were
C21_AddReplacesInPlace ==
    [][\A symbol \in RawSymbols :
          /\ \A shares \in ShareArgs :
                (AddHolding(symbol, shares) /\ MapHas(holdings, toUpperCase(symbol)))
                   => /\ Len(holdings') = Len(holdings)
                      /\ MapHas(holdings', toUpperCase(symbol))
                      /\ MapGet(holdings', toUpperCase(symbol)) = shares
                      /\ IndexOf(holdings', toUpperCase(symbol))
                            = IndexOf(holdings, toUpperCase(symbol))
          /\ \A shares \in ShareArgs :
                (AddHolding(symbol, shares) \/ UpdateHolding(symbol, shares))
                   => OthersUnchanged(holdings, holdings', symbol)
          /\ RemoveHolding(symbol) => OthersUnchanged(holdings, holdings', symbol)]_vars

\* AB, held first of two symbols, has taken the shares of a later write
C21_Witness ==
    /\ Len(holdings) = 2
    /\ holdings[1] = [symbol |-> <<"A", "B">>, shares |-> Fixed(Scale \div 2)]
    /\ holdings[2].symbol = <<"M">>

\* C26: updateHolding(s, n) has the effect of addHolding(s, n) on the store
\* when n > 0 and the effect of removeHolding(s) when n <= 0 or n is NaN
C26_UpdateIsAddOrRemove ==
    [][\A symbol \in RawSymbols, shares \in ShareArgs :
          UpdateHolding(symbol, shares) =>
              LET positive == shares.k = "num" /\ shares.v > 0
                  expected == IF positive THEN addHolding(holdings, symbol, shares)
                              ELSE removeHolding(holdings, symbol)
              IN  /\ holdings' = expected
                  /\ storage' = Persisted(expected)]_vars

\* M is the only symbol held, AB having been removed from a saved portfolio
C26_Witness ==
    /\ holdings = <<[symbol |-> <<"M">>, shares |-> N(2)]>>
    /\ storage = Persisted(holdings)

IsValidFloatingPointNumber(s) ==
    LET neg  == s # <<>> /\ Head(s) = "-"
        body == IF neg THEN Tail(s) ELSE s
        n    == DigitRun(body)
        rest == Drop(body, n + 1)
    IN  \/ n > 0 /\ rest = <<>>
        \/ /\ Len(rest) > 1
           /\ Head(rest) = "."
           /\ DigitRun(Tail(rest)) = Len(rest) - 1

\* e.target.value of <input type="number">: the text typed when it is a valid
\* floating-point number, else the empty string; the min, max and step
\* attributes do not change it
NumberInputValue(typed) == IF IsValidFloatingPointNumber(typed) THEN typed ELSE <<>>

\* what the user types into a number input
TypedTexts ==
    {<<>>, <<"0">>, <<"7">>, <<"-", "1">>, <<"2", ".", "5">>, <<"-">>}

\* e.target.value of <input type="range" min max step>: the browser keeps the
\* value on the step grid between min and max
RangeInputValues(min, max, step) ==
    {NumberToString(Fixed(min.v + n * step.v)) : n \in 0..((max.v - min.v) \div step.v)}

(***************************************************************************)
(* apiClient: the outcome of a POST and the response interceptor           *)
(***************************************************************************)
NetworkErrorText == "Network error. Please check your connection and try again."

\* a || b of JS on optional strings (<<>> is undefined)
OrElse(a, b) == IF a # <<>> /\ a[1] # "" THEN a ELSE b

\* the symbols an error body may list
OffendingSymbols == {"ZZZZ"}

\* error bodies: not an object (apiError?.error is undefined), or an APIError
\* with absent, empty or non-empty error and detail, without or with the list
\* of the symbols concerned
ErrorBodies ==
    [error : {<<>>, <<"">>, <<"UnknownSymbolError">>},
     detail : {<<>>, <<"">>, <<"No price history for ZZZZ">>},
     symbols : {<<>>} \cup {<<s>> : s \in OffendingSymbols}]

\* the AxiosError values the interceptor's error handler receives
ResponseErrors ==
    {[response |-> <<[status |-> 400, data |-> b]>>, request |-> TRUE,
      message |-> "Request failed with status code 400"] : b \in ErrorBodies}

NoResponseError ==
    [response |-> <<>>, request |-> TRUE, message |-> "Network Error"]

RequestSetupError ==
    [response |-> <<>>, request |-> FALSE, message |-> "Invalid URL"]

AxiosErrors == ResponseErrors \cup {NoResponseError, RequestSetupError}

\* apiClient.interceptors.response.use(onFulfilled, onRejected): onRejected
\* returns a rejected promise in each of its three branches
onRejectedDetailLast(error) ==
    IF error.response # <<>>
    THEN LET apiError == error.response[1].data
             message  == OrElse(apiError.error, <<error.message>>)
             detail   == apiError.detail
         IN  [settled |-> "rejected", message |-> OrElse(message, detail)[1]]
    ELSE IF error.request
    THEN [settled |-> "rejected", message |-> NetworkErrorText]
    ELSE [settled |-> "rejected", message |-> error.message]

onRejected(error) ==
    IF error.response # <<>>
    THEN LET apiError == error.response[1].data
             message  == OrElse(apiError.error, <<error.message>>)
             detail   == apiError.detail
         IN  [settled |-> "rejected", message |-> OrElse(detail, message)[1]]
    ELSE IF error.request
    THEN [settled |-> "rejected", message |-> NetworkErrorText]
    ELSE [settled |-> "rejected", message |-> error.message]

\* the outcomes of apiClient.post: a 2xx response, or an AxiosError
Outcomes == {[ok |-> TRUE, cause |-> <<>>]} \cup {[ok |-> FALSE, cause |-> <<e>>] : e \in AxiosErrors}

\* the outcomes used where the kind of failure does not matter
BasicOutcomes ==
    {[ok |-> TRUE, cause |-> <<>>], [ok |-> FALSE, cause |-> <<NoResponseError>>]}

\* the service awaits the post: a fulfilled promise yields the response's
\* data, a rejected one throws what the interceptor rejected with
ServiceResult(outcome) ==
    IF outcome.ok THEN [settled |-> "fulfilled", message |-> ""]
    ELSE onRejected(outcome.cause[1])

\* defaultOptions.queries.retry, repeated by useSearchUniverse
QueryRetry == 1

\* the mutations would be retried like the queries
MutationRetryAsQueries == QueryRetry

\* defaultOptions.mutations.retry
MutationRetry == 0

\* a failed attempt is followed by another one while failureCount < retry
ShouldRetry(failureCount, retry) == failureCount < retry

\* useMutation: mutate() starts a mutation with these variables and sends the
\* first request
Mutate(request) ==
    [status |-> "pending", variables |-> <<request>>, error |-> <<>>, data |-> <<>>,
     failureCount |-> 0, requests |-> 1, outcome |-> <<>>]

\* the promise of the mutation function settles: a fulfilled one ends the
\* mutation with its data; a rejected one is followed by a further request
\* while the retry option allows it, else it ends the mutation with error
\* holding the message of the Error thrown
Settled(mutation, outcome) ==
    LET r == ServiceResult(outcome)
    IN  IF r.settled = "fulfilled"
        THEN [mutation EXCEPT !.status = "success", !.data = <<"data">>,
                              !.outcome = <<outcome>>]
        ELSE IF ShouldRetry(mutation.failureCount, MutationRetry)
        THEN [mutation EXCEPT !.failureCount = @ + 1, !.requests = @ + 1,
                              !.outcome = <<outcome>>]
        ELSE [mutation EXCEPT !.status = "error", !.error = <<r.message>>,
                              !.failureCount = @ + 1, !.outcome = <<outcome>>]

(***************************************************************************)
(* Dashboard                                                               *)
(***************************************************************************)
Tabs == {"portfolio", "metrics", "analysis"}

\* setActiveTab: the panel of the tab left unmounts, the panel of the tab
\* entered mounts with its initial state
SetActiveTab(tab) ==
    /\ ~crashed
    /\ tab # activeTab
    /\ activeTab' = tab
    /\ MountMetricsPanel
    /\ MountAnalysisPanel
    /\ MountPortfolioBuilder
    /\ UnmountResults
    /\ UNCHANGED <<storeVars, engineVars, crashed, searchVars>>

(***************************************************************************)
(* TickerSearch: the universe query                                        *)
(***************************************************************************)
\* the debounced texts of the search box
SearchTexts == {<<>>, <<"a">>, <<"a", "b">>}

\* TickerSearch is rendered by AddHoldingForm while no company is selected
\* a query that is fetched whatever its text
enabledAlways(query) == TRUE

\* enabled = query.length > 0
enabled(query) == Len(query) > 0

TickerSearchShown == ~crashed /\ activeTab = "portfolio" /\ selectedCompany = <<>>

\* useSearchUniverse(debouncedQuery) with a new debounced text: the observer
\* moves to the key ['universe', query] and fetches it when enabled, that is
\* when query.length > 0
ObserveUniverse(query) ==
    /\ TickerSearchShown
    /\ universeQuery.key # <<query>>
    /\ universeQuery' =
          IF enabled(query)
          THEN [status |-> "pending", key |-> <<query>>, error |-> <<>>,
                failureCount |-> 0, requests |-> 1]
          ELSE [IdleQuery EXCEPT !.key = <<query>>]
    /\ UNCHANGED <<storeVars, engineVars, activeTab, crashed, metricsVars, analysisVars,
                   portfolioFormVars, resultsVars>>

\* the GET of the universe query settles: a failed attempt is followed by
\* another one while the retry option allows it
SettleUniverse(outcome) ==
    LET r == ServiceResult(outcome)
    IN  /\ ~crashed
        /\ universeQuery.status = "pending"
        /\ universeQuery' =
              IF r.settled = "fulfilled"
              THEN [universeQuery EXCEPT !.status = "success"]
              ELSE IF ShouldRetry(universeQuery.failureCount, QueryRetry)
              THEN [universeQuery EXCEPT !.failureCount = @ + 1, !.requests = @ + 1]
              ELSE [universeQuery EXCEPT !.status = "error", !.error = <<r.message>>,
                                          !.failureCount = @ + 1]
        /\ UNCHANGED <<storeVars, engineVars, activeTab, crashed, metricsVars, analysisVars,
                       portfolioFormVars, resultsVars>>

(***************************************************************************)
(* PortfolioBuilder: AddHoldingForm and HoldingsTable                      *)
(***************************************************************************)
\* symbols of the companies the ticker search offers
CompanySymbols == {<<"A", "B">>, <<"M">>}

\* the part of the dashboard outside the portfolio builder's forms
outsideForms == <<activeTab, crashed, searchVars, metricsVars, analysisVars, resultsVars>>

PortfolioTabShown == ~crashed /\ activeTab = "portfolio"

\* TickerSearch's onSelect: setSelectedCompany(company); the search field
\* gives way to the company's card
SelectCompany(symbol) ==
    /\ TickerSearchShown
    /\ selectedCompany' = <<symbol>>
    /\ universeQuery' = IdleQuery
    /\ UNCHANGED <<storeVars, engineVars, activeTab, crashed, metricsVars,
                   analysisVars, resultsVars, formShares, editingSymbol, editShares>>

\* the Change button: setSelectedCompany(null)
ChangeCompany ==
    /\ PortfolioTabShown
    /\ selectedCompany # <<>>
    /\ selectedCompany' = <<>>
    /\ UNCHANGED <<storeVars, engineVars, outsideForms, formShares, editingSymbol,
                   editShares>>

\* the shares input of AddHoldingForm: setShares(e.target.value)
SetShares(typed) ==
    /\ PortfolioTabShown
    /\ formShares' = NumberInputValue(typed)
    /\ UNCHANGED <<storeVars, engineVars, outsideForms, selectedCompany,
                   editingSymbol, editShares>>

\* the shares check of handleSubmit and saveEdit, without the test for zero
\* and negative numbers
invalidSharesNaNOnly(sharesNum) == IsNaN(sharesNum)

\* isNaN(sharesNum) || sharesNum <= 0
invalidShares(sharesNum) == IsNaN(sharesNum) \/ Le(sharesNum, N(0))

\* AddHoldingForm.handleSubmit on a submit event of the form
SubmitAddHolding ==
    LET sharesNum == parseFloat(formShares)
    IN  /\ PortfolioTabShown
        /\ IF selectedCompany = <<>> \/ invalidShares(sharesNum)
           THEN UNCHANGED <<storeVars, selectedCompany, formShares>>
           ELSE /\ StoreSet(addHolding(holdings, selectedCompany[1], sharesNum))
                /\ selectedCompany' = <<>>
                /\ formShares' = <<"1">>
        /\ UNCHANGED <<engineVars, outsideForms, editingSymbol, editShares>>

\* HoldingsTable.startEdit on the edit button of a row that is not being edited
StartEdit(symbol) ==
    /\ PortfolioTabShown
    /\ MapHas(holdings, symbol)
    /\ editingSymbol # <<symbol>>
    /\ editingSymbol' = <<symbol>>
    /\ editShares' = NumberToString(MapGet(holdings, symbol))
    /\ UNCHANGED <<storeVars, engineVars, outsideForms, selectedCompany, formShares>>

\* the row being edited is one of the rows shown
EditRowShown ==
    /\ PortfolioTabShown
    /\ editingSymbol # <<>>
    /\ MapHas(holdings, editingSymbol[1])

\* the shares input of the row being edited: setEditShares(e.target.value)
SetEditShares(typed) ==
    /\ EditRowShown
    /\ editShares' = NumberInputValue(typed)
    /\ UNCHANGED <<storeVars, engineVars, outsideForms, selectedCompany, formShares,
                   editingSymbol>>

\* HoldingsTable.saveEdit on the row being edited, by its button or Enter
SaveEdit ==
    LET newShares == parseFloat(editShares)
    IN  /\ EditRowShown
        /\ IF invalidShares(newShares)
           THEN UNCHANGED <<storeVars, editingSymbol>>
           ELSE /\ StoreSet(updateHolding(holdings, editingSymbol[1], newShares))
                /\ editingSymbol' = <<>>
        /\ UNCHANGED <<engineVars, outsideForms, selectedCompany, formShares, editShares>>

\* HoldingsTable.cancelEdit, by its button or Escape
CancelEdit ==
    /\ EditRowShown
    /\ editingSymbol' = <<>>
    /\ editShares' = <<>>
    /\ UNCHANGED <<storeVars, engineVars, outsideForms, selectedCompany, formShares>>

\* HoldingsTable.handleRemove, confirmed; the row being edited has no remove
\* button
HandleRemove(symbol) ==
    /\ ~crashed
    /\ activeTab = "portfolio"
    /\ MapHas(holdings, symbol)
    /\ editingSymbol # <<symbol>>
    /\ StoreSet(removeHolding(holdings, symbol))
    /\ UNCHANGED <<uiVars, engineVars>>

\* HoldingsTable.handleClearAll, confirmed
HandleClearAll ==
    /\ ~crashed
    /\ activeTab = "portfolio"
    /\ hasHoldings(holdings)
    /\ StoreSet(clearHoldings)
    /\ UNCHANGED <<uiVars, engineVars>>

\* the text parses to a number above zero
ParsesToPositive(text) ==
    LET x == parseFloat(text)
    IN  x.k = "num" /\ x.v > 0

\* C20: a submit of AddHoldingForm with no company selected, and a submit or
\* a saveEdit whose shares text does not parse to a number above zero, leave
\* the portfolio store as it was, and the saveEdit leaves the row in edit
\* mode; a valid submit stores the parsed shares under the symbol and resets
\* the form to no company and the text '1'
C20_SharesValidated ==
    [][/\ (SubmitAddHolding /\ (selectedCompany = <<>> \/ ~ParsesToPositive(formShares)))
            => UNCHANGED storeVars
       /\ (SaveEdit /\ ~ParsesToPositive(editShares))
            => UNCHANGED <<storeVars, editingSymbol>>
       /\ (SubmitAddHolding /\ selectedCompany # <<>> /\ ParsesToPositive(formShares))
            => /\ MapHas(holdings', selectedCompany[1])
               /\ MapGet(holdings', selectedCompany[1]) = parseFloat(formShares)
               /\ selectedCompany' = <<>>
               /\ formShares' = <<"1">>]_vars

\* 2.5 shares of M were added by a submit that reset the form, and the row
\* is in edit mode with a text that is not a number above zero
C20_Witness ==
    /\ PortfolioTabShown
    /\ MapHas(holdings, <<"M">>)
    /\ MapGet(holdings, <<"M">>) = Fixed((5 * Scale) \div 2)
    /\ selectedCompany = <<>>
    /\ formShares = <<"1">>
    /\ editingSymbol = <<<<"M">>>>
    /\ editShares = <<"0">>

\* C27: in HoldingsTable at most one row is in edit mode, and editingSymbol,
\* when it is not null, is a symbol present in the holdings map: a removed or
\* cleared symbol is never left marked as being edited
C27_EditedRowIsHeld ==
    /\ Cardinality({i \in 1..Len(holdings) : editingSymbol = <<holdings[i].symbol>>}) <= 1
    /\ editingSymbol # <<>> => MapHas(holdings, editingSymbol[1])

(***************************************************************************)
(* RiskMetricsPanel                                                        *)
(***************************************************************************)
Methods == {"historical", "parametric", "monte_carlo"}

McModes == {"bootstrap", "normal", "student_t"}

\* the mutate functions exist although the panel shows only the empty state
MetricsFormShownAlways == ~crashed /\ activeTab = "metrics"

\* the panel returns the empty state unless the store has holdings
MetricsFormShown == ~crashed /\ activeTab = "metrics" /\ hasHoldings(holdings)

isLoading == varMutation.status = "pending" \/ esMutation.status = "pending"

\* error = varMutation.error || esMutation.error
error == IF varMutation.error # <<>> THEN varMutation.error ELSE esMutation.error

\* data = metric === 'var' ? varMutation.data : esMutation.data
data == IF metric = "var" THEN varMutation.data ELSE esMutation.data

McParamsAlways ==
    [mc_mode |-> mcMode, simulations |-> simulations, df_t |-> dfT]

\* ...(method === 'monte_carlo' && { mc_mode, simulations, df_t })
McParams ==
    IF method = "monte_carlo"
    THEN [mc_mode |-> mcMode, simulations |-> simulations, df_t |-> dfT]
    ELSE [f \in {} |-> f]

baseParams ==
    [holdings |-> getHoldingsArray(holdings),
     method |-> method,
     confidence |-> confidence,
     horizon_days |-> horizonDays,
     lookback_days |-> lookbackDays] @@ McParams

\* handleCompute: one mutate call, on the mutation of the selected metric
handleCompute ==
    /\ IF metric = "var"
       THEN varMutation' = Mutate(baseParams) /\ UNCHANGED esMutation
       ELSE esMutation' = Mutate(baseParams) /\ UNCHANGED varMutation
    /\ UNCHANGED <<storeVars, engineVars, portfolioVars, resultsVars, activeTab, crashed, metricsFormVars, analysisVars>>

\* the COMPUTE button, disabled while isLoading
ClickCompute ==
    /\ MetricsFormShown
    /\ ~isLoading
    /\ handleCompute

\* the Try Again button of the error display, shown while error is set
ClickTryAgain ==
    /\ MetricsFormShown
    /\ error # <<>>
    /\ handleCompute

SetMetric(m) ==
    /\ MetricsFormShown
    /\ metric' = m
    /\ UNCHANGED <<storeVars, engineVars, portfolioVars, resultsVars, activeTab, crashed, method, confidence, horizonDays,
                   lookbackDays, mcMode, simulations, dfT, varMutation, esMutation,
                   analysisVars>>

SetMethod(m) ==
    /\ MetricsFormShown
    /\ method' = m
    /\ UNCHANGED <<storeVars, engineVars, portfolioVars, resultsVars, activeTab, crashed, metric, confidence, horizonDays,
                   lookbackDays, mcMode, simulations, dfT, varMutation, esMutation,
                   analysisVars>>

SliderMin == Hundredths(90)

SliderMaxWhole == N(99)

SliderMax == Hundredths(99)

SliderStep == Hundredths(1)

\* the confidence slider: setConfidence(parseFloat(e.target.value))
SetConfidence(value) ==
    /\ MetricsFormShown
    /\ confidence' = parseFloat(value)
    /\ UNCHANGED <<storeVars, engineVars, portfolioVars, resultsVars, activeTab, crashed, metric, method, horizonDays,
                   lookbackDays, mcMode, simulations, dfT, varMutation, esMutation,
                   analysisVars>>

\* the horizon input: setHorizonDays(parseInt(e.target.value))
SetHorizonDays(typed) ==
    /\ MetricsFormShown
    /\ horizonDays' = parseInt(NumberInputValue(typed))
    /\ UNCHANGED <<storeVars, engineVars, portfolioVars, resultsVars, activeTab, crashed, metric, method, confidence,
                   lookbackDays, mcMode, simulations, dfT, varMutation, esMutation,
                   analysisVars>>

\* the lookback input: setLookbackDays(parseInt(e.target.value))
SetLookbackDays(typed) ==
    /\ MetricsFormShown
    /\ lookbackDays' = parseInt(NumberInputValue(typed))
    /\ UNCHANGED <<storeVars, engineVars, portfolioVars, resultsVars, activeTab, crashed, metric, method, confidence,
                   horizonDays, mcMode, simulations, dfT, varMutation, esMutation,
                   analysisVars>>

\* the Monte Carlo inputs are rendered while method is 'monte_carlo'
SetMcMode(mode) ==
    /\ MetricsFormShown
    /\ method = "monte_carlo"
    /\ mcMode' = mode
    /\ UNCHANGED <<storeVars, engineVars, portfolioVars, resultsVars, activeTab, crashed, metric, method, confidence,
                   horizonDays, lookbackDays, simulations, dfT, varMutation,
                   esMutation, analysisVars>>

\* the simulations input: setSimulations(parseInt(e.target.value))
SetSimulations(typed) ==
    /\ MetricsFormShown
    /\ method = "monte_carlo"
    /\ simulations' = parseInt(NumberInputValue(typed))
    /\ UNCHANGED <<storeVars, engineVars, portfolioVars, resultsVars, activeTab, crashed, metric, method, confidence,
                   horizonDays, lookbackDays, mcMode, dfT, varMutation, esMutation,
                   analysisVars>>

\* the degrees-of-freedom input, rendered while mcMode is 'student_t':
\* setDfT(parseInt(e.target.value))
SetDfT(typed) ==
    /\ MetricsFormShown
    /\ method = "monte_carlo"
    /\ mcMode = "student_t"
    /\ dfT' = parseInt(NumberInputValue(typed))
    /\ UNCHANGED <<storeVars, engineVars, portfolioVars, resultsVars, activeTab, crashed, metric, method, confidence,
                   horizonDays, lookbackDays, mcMode, simulations, varMutation,
                   esMutation, analysisVars>>

\* the POST of the pending VaR mutation settles
SettleVar(outcome) ==
    /\ ~crashed
    /\ varMutation.status = "pending"
    /\ varMutation' = Settled(varMutation, outcome)
    /\ UNCHANGED <<storeVars, engineVars, portfolioVars, resultsVars, activeTab, crashed, metricsFormVars, esMutation,
                   analysisVars>>

\* the POST of the pending ES mutation settles
SettleEs(outcome) ==
    /\ ~crashed
    /\ esMutation.status = "pending"
    /\ esMutation' = Settled(esMutation, outcome)
    /\ UNCHANGED <<storeVars, engineVars, portfolioVars, resultsVars, activeTab, crashed, metricsFormVars, varMutation,
                   analysisVars>>

(***************************************************************************)
(* RiskAnalysisPanel                                                       *)
(***************************************************************************)
\* the panel returns the empty state unless the store has holdings
AnalysisFormShown == ~crashed /\ activeTab = "analysis" /\ hasHoldings(holdings)

\* isLoading as destructured from useRiskAnalysis(): a TanStack Query v5
\* mutation result has isPending and no isLoading, so the value is undefined
analysisIsLoading == FALSE

analysisRequest ==
    [holdings |-> getHoldingsArray(holdings),
     confidence |-> aConfidence,
     horizon_days |-> aHorizonDays,
     lookback_days |-> aLookbackDays,
     include_backtest |-> includeBacktest,
     include_es |-> TRUE,
     include_llm_recommendations |-> FALSE]

\* handleAnalyze
handleAnalyze ==
    /\ riskMutation' = Mutate(analysisRequest)
    /\ UNCHANGED <<storeVars, engineVars, portfolioVars, resultsVars, activeTab, crashed, metricsVars, analysisFormVars>>

\* the ANALYZE RISK button, disabled while isLoading
ClickAnalyze ==
    /\ AnalysisFormShown
    /\ ~analysisIsLoading
    /\ handleAnalyze

\* the confidence slider: setConfidence(parseFloat(e.target.value))
SetAConfidence(value) ==
    /\ AnalysisFormShown
    /\ aConfidence' = parseFloat(value)
    /\ UNCHANGED <<storeVars, engineVars, portfolioVars, resultsVars, activeTab, crashed, metricsVars, aHorizonDays,
                   aLookbackDays, includeBacktest, riskMutation>>

\* the horizon input: setHorizonDays(Number(e.target.value))
SetAHorizonDays(typed) ==
    /\ AnalysisFormShown
    /\ aHorizonDays' = Number(NumberInputValue(typed))
    /\ UNCHANGED <<storeVars, engineVars, portfolioVars, resultsVars, activeTab, crashed, metricsVars, aConfidence,
                   aLookbackDays, includeBacktest, riskMutation>>

\* the lookback input: setLookbackDays(Number(e.target.value))
SetALookbackDays(typed) ==
    /\ AnalysisFormShown
    /\ aLookbackDays' = Number(NumberInputValue(typed))
    /\ UNCHANGED <<storeVars, engineVars, portfolioVars, resultsVars, activeTab, crashed, metricsVars, aConfidence,
                   aHorizonDays, includeBacktest, riskMutation>>

\* the box of <Checkbox checked={includeBacktest}> as React renders it
BacktestBoxChecked == Truthy(includeBacktest)

\* a click on the backtest checkbox: onChange={(checked) =>
\* setIncludeBacktest(checked)} is called with the change event of the input
ToggleBacktest ==
    /\ AnalysisFormShown
    /\ includeBacktest' = ChangeEvent(~BacktestBoxChecked)
    /\ UNCHANGED <<storeVars, engineVars, portfolioVars, resultsVars, activeTab, crashed,
                   metricsVars, aConfidence, aHorizonDays, aLookbackDays,
                   riskMutation>>

\* the POST of the pending risk-analysis mutation settles; on an error the
\* panel renders <ErrorDisplay title message onRetry> without the error prop,
\* ErrorDisplay reads error.message of undefined and the render throws
SettleRisk(outcome) ==
    /\ ~crashed
    /\ riskMutation.status = "pending"
    /\ riskMutation' = Settled(riskMutation, outcome)
    /\ crashed' = (riskMutation'.status = "error")
    /\ UNCHANGED <<storeVars, engineVars, portfolioVars, resultsVars, activeTab, metricsVars,
                   analysisFormVars>>

(***************************************************************************)
(* RiskAssessmentBadge                                                     *)
(***************************************************************************)
\* RISK_LEVELS
Infinity == [k |-> "inf", v |-> 0]

RISK_LEVELS ==
    [LOW      |-> [threshold |-> Hundredths(2), color |-> "green", label |-> "LOW"],
     MODERATE |-> [threshold |-> Hundredths(5), color |-> "yellow", label |-> "MODERATE"],
     HIGH     |-> [threshold |-> Hundredths(10), color |-> "orange", label |-> "HIGH"],
     SEVERE   |-> [threshold |-> Infinity, color |-> "red", label |-> "SEVERE"]]

\* the first cut-off taken inclusive
getRiskLevelInclusive(var_pct) ==
    IF Le(var_pct, Hundredths(2)) THEN [level |-> "LOW", color |-> "green"]
    ELSE IF Lt(var_pct, Hundredths(5)) THEN [level |-> "MODERATE", color |-> "yellow"]
    ELSE IF Lt(var_pct, Hundredths(10)) THEN [level |-> "HIGH", color |-> "orange"]
    ELSE [level |-> "SEVERE", color |-> "red"]

getRiskLevel(var_pct) ==
    IF Lt(var_pct, Hundredths(2)) THEN [level |-> "LOW", color |-> "green"]
    ELSE IF Lt(var_pct, Hundredths(5)) THEN [level |-> "MODERATE", color |-> "yellow"]
    ELSE IF Lt(var_pct, Hundredths(10)) THEN [level |-> "HIGH", color |-> "orange"]
    ELSE [level |-> "SEVERE", color |-> "red"]

\* var_pct of a response: finite numbers from -0.1 to 1 on the grid of the
\* fixed-point numbers
VarPcts == {Fixed(i) : i \in -(Scale \div 10)..Scale}

\* the badge receives its props
InitBadge ==
    /\ InitApp
    /\ badge \in {[mounted |-> TRUE, varPct |-> x, risk |-> <<>>] : x \in VarPcts}
    /\ backtest = Unmounted
    /\ facts = Unmounted
    /\ table = Unmounted

\* the render: const risk = getRiskLevel(varPct)
RenderBadge ==
    /\ badge.mounted
    /\ badge.risk = <<>>
    /\ badge' = [badge EXCEPT !.risk = <<getRiskLevel(badge.varPct)>>]
    /\ UNCHANGED <<storeVars, engineVars, activeTab, crashed, metricsVars, analysisVars,
                   portfolioVars, backtest, facts, table>>

NextBadge == RenderBadge

SpecBadge == InitBadge /\ [][NextBadge]_vars

\* the order of the levels
LevelRank(level) ==
    CASE level = "LOW" -> 1
      [] level = "MODERATE" -> 2
      [] level = "HIGH" -> 3
      [] level = "SEVERE" -> 4

\* C13: the level shown is LOW iff var_pct < 0.02, MODERATE iff
\* 0.02 <= var_pct < 0.05, HIGH iff 0.05 <= var_pct < 0.10 and SEVERE iff
\* var_pct >= 0.10; no smaller var_pct gets a higher level; the three
\* cut-offs are the thresholds of RISK_LEVELS.
C13_RiskLevelByVarPct ==
    (badge.mounted /\ badge.risk # <<>>) =>
        LET v == badge.varPct
            l == badge.risk[1].level
        IN  /\ l \in {"LOW", "MODERATE", "HIGH", "SEVERE"}
            /\ (l = "LOW") <=> Lt(v, Hundredths(2))
            /\ (l = "MODERATE") <=> (Le(Hundredths(2), v) /\ Lt(v, Hundredths(5)))
            /\ (l = "HIGH") <=> (Le(Hundredths(5), v) /\ Lt(v, Hundredths(10)))
            /\ (l = "SEVERE") <=> Le(Hundredths(10), v)
            /\ \A x \in VarPcts :
                  Le(x, v) => LevelRank(getRiskLevel(x).level) <= LevelRank(l)
            /\ RISK_LEVELS.LOW.threshold = Hundredths(2)
            /\ RISK_LEVELS.MODERATE.threshold = Hundredths(5)
            /\ RISK_LEVELS.HIGH.threshold = Hundredths(10)
            /\ RISK_LEVELS[l].label = l
            /\ RISK_LEVELS[l].color = badge.risk[1].color

\* the badge has rendered a var_pct that lies on a cut-off
C13_Witness ==
    /\ badge.mounted
    /\ badge.varPct = Hundredths(2)
    /\ badge.risk # <<>>
    /\ badge.risk[1].level = "MODERATE"

(***************************************************************************)
(* BacktestResults                                                         *)
(***************************************************************************)
\* the comparison taken inclusive
isWellCalibratedInclusive(summary) == Le(Hundredths(5), summary.kupiec_p_value)

\* const isWellCalibrated = backtest.kupiec_p_value > 0.05
isWellCalibrated(summary) == Gt(summary.kupiec_p_value, Hundredths(5))

\* kupiec_p_value of a backtest summary: the probabilities on the grid of the
\* fixed-point numbers
PValues == {Fixed(i) : i \in 0..Scale}

\* the component receives its props
InitBacktest ==
    /\ InitApp
    /\ badge = Unmounted
    /\ backtest \in {[mounted |-> TRUE, summary |-> [kupiec_p_value |-> x],
                       shown |-> <<>>] : x \in PValues}
    /\ facts = Unmounted
    /\ table = Unmounted

\* the render: the calibration badge of the header, and the colour and the
\* Pass / Fail line of the p-value card
RenderBacktest ==
    /\ backtest.mounted
    /\ backtest.shown = <<>>
    /\ backtest' =
          [backtest EXCEPT !.shown =
              <<[badge |-> IF isWellCalibrated(backtest.summary)
                           THEN "WELL-CALIBRATED" ELSE "NEEDS ADJUSTMENT",
                 color |-> IF Gt(backtest.summary.kupiec_p_value, Hundredths(5))
                           THEN "text-green-500" ELSE "text-red-500",
                 label |-> IF Gt(backtest.summary.kupiec_p_value, Hundredths(5))
                           THEN "Pass (>0.05)" ELSE "Fail (<0.05)"]>>]
    /\ UNCHANGED <<storeVars, engineVars, activeTab, crashed, metricsVars, analysisVars,
                   portfolioVars, badge, facts, table>>

NextBacktest == RenderBacktest

SpecBacktest == InitBacktest /\ [][NextBacktest]_vars

\* the Pass / Fail line says what the badge says
LabelAgreesWithBadge ==
    (backtest.shown[1].label = "Pass (>0.05)")
        <=> (backtest.shown[1].badge = "WELL-CALIBRATED")

Undefined == [k |-> "undefined", v |-> 0]

\* the string 'N/A'
NAString == [k |-> "string", v |-> 0]

\* Number.prototype.toFixed(digits) of a finite number, rounding half up
toFixed(x, digits) ==
    LET a      == IF x.v < 0 THEN -x.v ELSE x.v
        scaled == IF digits >= FracDigits
                  THEN a * 10 ^ (digits - FracDigits)
                  ELSE (2 * a + 10 ^ (FracDigits - digits)) \div (2 * 10 ^ (FracDigits - digits))
    IN  (IF x.v < 0 THEN <<"-">> ELSE <<>>)
        \o NatToText(scaled \div 10 ^ digits)
        \o (IF digits = 0 THEN <<>>
            ELSE <<".">> \o Pad(NatToText(scaled % 10 ^ digits), digits))

\* value.toFixed(...) is a TypeError unless value is a number
HasToFixed(value) == value.k \in {"num", "nan"}

\* the cards rendered whatever the facts are (ES aside)
BaseCards ==
    <<"Value at Risk (VaR)", "Max Position Weight", "Effective Diversification",
      "Max Risk Contribution">>

\* riskFacts.avg_pairwise_corr !== undefined
CardGuard(value) == value.k # "undefined"

\* riskFacts.top_correlated_pairs && riskFacts.top_correlated_pairs.length > 0
HasPairs(pairs) == pairs.k = "array" /\ Len(pairs.items) > 0

\* the render of RiskFactsDisplay: it throws when toFixed is called on a value
\* that has no such method, else it yields the cards
RiskFactsRender(riskFacts) ==
    LET avg == riskFacts.avg_pairwise_corr
        max == riskFacts.max_pairwise_corr
        pairs == riskFacts.top_correlated_pairs
    IN  IF \/ CardGuard(avg) /\ ~HasToFixed(avg)
           \/ CardGuard(max) /\ ~HasToFixed(max)
        THEN [threw |-> TRUE, labels |-> <<>>, avgValue |-> <<>>, maxValue |-> <<>>,
              maxSubtitle |-> <<>>]
        ELSE [threw |-> FALSE,
              labels |-> BaseCards
                         \o (IF CardGuard(avg) THEN <<"Avg. Correlation">> ELSE <<>>)
                         \o (IF CardGuard(max) THEN <<"Max Correlation">> ELSE <<>>),
              avgValue |-> IF CardGuard(avg) THEN <<toFixed(avg, 3)>> ELSE <<>>,
              maxValue |-> IF CardGuard(max) THEN <<toFixed(max, 3)>> ELSE <<>>,
              maxSubtitle |-> IF ~CardGuard(max) THEN <<>>
                              ELSE IF HasPairs(pairs)
                              THEN <<pairs.items[1].symbol_1 \o " - " \o pairs.items[1].symbol_2>>
                              ELSE <<"N/A">>]

\* a correlation value of a response: absent, null, 'N/A', or a number
CorrelationValues ==
    {Undefined, Null, NAString, Fixed(-(Scale \div 4)), Fixed(0), Fixed(Scale \div 2),
     N(1)}

\* top_correlated_pairs of a response: absent, null, empty, or one pair
PairLists ==
    {[k |-> "undefined", items |-> <<>>], [k |-> "null", items |-> <<>>],
     [k |-> "array", items |-> <<>>],
     [k |-> "array", items |-> <<[symbol_1 |-> "AB", symbol_2 |-> "M"]>>]}

\* the component receives its props
InitFacts ==
    /\ InitApp
    /\ badge = Unmounted
    /\ backtest = Unmounted
    /\ facts \in {[mounted |-> TRUE,
                    riskFacts |-> [avg_pairwise_corr |-> a, max_pairwise_corr |-> m,
                                   top_correlated_pairs |-> prs],
                    shown |-> <<>>] :
                       a \in CorrelationValues, m \in CorrelationValues,
                       prs \in PairLists}
    /\ table = Unmounted

\* the render; a render that throws takes the whole tree down
RenderFacts ==
    /\ ~crashed
    /\ facts.mounted
    /\ facts.shown = <<>>
    /\ facts' = [facts EXCEPT !.shown = <<RiskFactsRender(facts.riskFacts)>>]
    /\ crashed' = RiskFactsRender(facts.riskFacts).threw
    /\ UNCHANGED <<storeVars, engineVars, activeTab, metricsVars, analysisVars, portfolioVars,
                   badge, backtest, table>>

NextFacts == RenderFacts

SpecFacts == InitFacts /\ [][NextFacts]_vars

\* a value that stands for no correlation: absent, null or 'N/A'
NoValue(value) == value.k \in {"undefined", "null", "string"}

\* the facts of a single-holding portfolio: no correlation value, no pair
SingleHoldingFacts(riskFacts) ==
    /\ NoValue(riskFacts.avg_pairwise_corr)
    /\ NoValue(riskFacts.max_pairwise_corr)
    /\ ~HasPairs(riskFacts.top_correlated_pairs)

\* C16: facts of a single-holding portfolio (correlation values absent, null
\* or 'N/A') are rendered without a failure: the other cards are shown, a
\* correlation card is omitted or shows 'N/A', and no number formatting is
\* applied to a missing value.
C16_SingleHoldingFactsRender ==
    (facts.mounted /\ facts.shown # <<>> /\ SingleHoldingFacts(facts.riskFacts)) =>
        /\ ~facts.shown[1].threw
        /\ ~crashed
        /\ SubSeq(facts.shown[1].labels, 1, Len(BaseCards)) = BaseCards
        /\ facts.shown[1].avgValue = <<>>
        /\ facts.shown[1].maxValue = <<>>
        /\ facts.shown[1].maxSubtitle \in {<<>>, <<"N/A">>}

(***************************************************************************)
(* ComponentVaRTable                                                       *)
(***************************************************************************)
SortFields == {"symbol", "weight", "component_var_dollars", "percentage_contribution"}

\* the place of a letter in the alphabet
CharRank(c) == CHOOSE i \in 1..Len(UpperChars) : UpperChars[i] = c

\* a.localeCompare(b) on upper-case symbols: -1, 0 or 1
RECURSIVE localeCompare(_, _)
localeCompare(a, b) ==
    IF a = <<>> /\ b = <<>> THEN 0
    ELSE IF a = <<>> THEN -1
    ELSE IF b = <<>> THEN 1
    ELSE IF CharRank(Head(a)) < CharRank(Head(b)) THEN -1
    ELSE IF CharRank(Head(a)) > CharRank(Head(b)) THEN 1
    ELSE localeCompare(Tail(a), Tail(b))

\* the comparator without the multiplier
compareAscending(a, b, sortField, sortDirection) ==
    IF sortField = "symbol" THEN localeCompare(a.symbol, b.symbol)
    ELSE a[sortField].v - b[sortField].v

\* the comparator of sortedComponents, as a multiple of 1 / Scale
compare(a, b, sortField, sortDirection) ==
    LET multiplier == IF sortDirection = "asc" THEN 1 ELSE -1
    IN  IF sortField = "symbol" THEN multiplier * localeCompare(a.symbol, b.symbol)
        ELSE multiplier * (a[sortField].v - b[sortField].v)

\* Array.prototype.sort is stable: an element goes behind every element that
\* does not compare greater
RECURSIVE InsertSorted(_, _, _, _)
InsertSorted(sorted, x, sortField, sortDirection) ==
    IF sorted = <<>> THEN <<x>>
    ELSE IF compare(sorted[Len(sorted)], x, sortField, sortDirection) <= 0
    THEN Append(sorted, x)
    ELSE Append(InsertSorted(SubSeq(sorted, 1, Len(sorted) - 1), x, sortField,
                             sortDirection),
                sorted[Len(sorted)])

\* [...components].sort(comparator)
RECURSIVE sortedComponents(_, _, _)
sortedComponents(components, sortField, sortDirection) ==
    IF components = <<>> THEN <<>>
    ELSE InsertSorted(sortedComponents(SubSeq(components, 1, Len(components) - 1),
                                       sortField, sortDirection),
                      components[Len(components)], sortField, sortDirection)

\* the components of a response: equal component VaR for two of them, a
\* negative one for a hedge
ComponentPool ==
    {[symbol |-> <<"A", "B">>, weight |-> Hundredths(50),
      component_var_dollars |-> N(30), percentage_contribution |-> Hundredths(60)],
     [symbol |-> <<"M">>, weight |-> Hundredths(30),
      component_var_dollars |-> N(30), percentage_contribution |-> Hundredths(30)],
     [symbol |-> <<"A">>, weight |-> Hundredths(10),
      component_var_dollars |-> N(-5), percentage_contribution |-> Hundredths(-10)],
     [symbol |-> <<"B">>, weight |-> Hundredths(10),
      component_var_dollars |-> N(15), percentage_contribution |-> Hundredths(20)]}

\* the largest number of components of a response
MaxComponents == 3

\* lists of distinct components
ComponentLists ==
    {c \in UNION {[1..n -> ComponentPool] : n \in 0..MaxComponents} :
        \A i, j \in 1..Len(c) : i # j => c[i] # c[j]}

\* the table is mounted with its props and has rendered once
InitTable ==
    /\ InitApp
    /\ badge = Unmounted
    /\ backtest = Unmounted
    /\ facts = Unmounted
    /\ table \in {[mounted |-> TRUE, components |-> c,
                    sortField |-> "percentage_contribution", sortDirection |-> "desc",
                    rows |-> sortedComponents(c, "percentage_contribution", "desc"),
                    clicked |-> FALSE, lastClick |-> <<>>] : c \in ComponentLists}

\* the sort state after a click that keeps the direction when another
\* header is clicked
sortStateKeepDirection(sortField, sortDirection, field) ==
    IF sortField = field
    THEN [sortField |-> sortField,
          sortDirection |-> IF sortDirection = "asc" THEN "desc" ELSE "asc"]
    ELSE [sortField |-> field, sortDirection |-> sortDirection]

\* the sort state handleSort(field) sets
sortStateAfter(sortField, sortDirection, field) ==
    IF sortField = field
    THEN [sortField |-> sortField,
          sortDirection |-> IF sortDirection = "asc" THEN "desc" ELSE "asc"]
    ELSE [sortField |-> field, sortDirection |-> "desc"]

\* handleSort(field), and the render that follows; lastClick records the
\* header clicked and the sort state the click found
handleSort(field) ==
    LET new == sortStateAfter(table.sortField, table.sortDirection, field)
        newField == new.sortField
        newDirection == new.sortDirection
    IN  /\ table.mounted
        /\ table' = [table EXCEPT
                        !.sortField = newField,
                        !.sortDirection = newDirection,
                        !.rows = sortedComponents(table.components, newField, newDirection),
                        !.clicked = TRUE,
                        !.lastClick = <<[header |-> field,
                                         sortField |-> table.sortField,
                                         sortDirection |-> table.sortDirection]>>]
        /\ UNCHANGED <<storeVars, engineVars, activeTab, crashed, metricsVars, analysisVars,
                       portfolioVars, badge, backtest, facts>>

NextTable == \E field \in SortFields : handleSort(field)

SpecTable == InitTable /\ [][NextTable]_vars

\* how often a component occurs in a list
Occurrences(list, c) == Cardinality({i \in 1..Len(list) : list[i] = c})

\* a comes before or with b in the order of the field, ascending
InOrder(a, b, field) ==
    IF field = "symbol" THEN localeCompare(a.symbol, b.symbol) <= 0
    ELSE Le(a[field], b[field])

\* C17: the rows shown are a permutation of the components received, ordered
\* by the sort field, ascending when the direction is 'asc' and descending
\* when it is 'desc'; before any click the order is percentage_contribution
\* descending.
C17_RowsSortedPermutation ==
    table.mounted =>
        /\ Len(table.rows) = Len(table.components)
        /\ \A c \in ComponentPool :
              Occurrences(table.rows, c) = Occurrences(table.components, c)
        /\ \A i, j \in 1..Len(table.rows) :
              i < j => IF table.sortDirection = "asc"
                       THEN InOrder(table.rows[i], table.rows[j], table.sortField)
                       ELSE InOrder(table.rows[j], table.rows[i], table.sortField)
        /\ ~table.clicked =>
              /\ table.sortField = "percentage_contribution"
              /\ table.sortDirection = "desc"

\* three components, two of them with equal component VaR, are shown by
\* component VaR ascending in another order than they were received
C17_Witness ==
    /\ table.mounted
    /\ Len(table.components) = 3
    /\ table.sortField = "component_var_dollars"
    /\ table.sortDirection = "asc"
    /\ table.rows # table.components
    /\ \E i, j \in 1..3 :
          /\ i # j
          /\ table.rows[i].component_var_dollars = table.rows[j].component_var_dollars

\* clicking the header of the current sort field flips the direction and
\* keeps the field; clicking another header selects it with direction 'desc';
\* the direction is always 'asc' or 'desc'
SortMachine ==
    /\ [](table.mounted => table.sortDirection \in {"asc", "desc"})
    /\ [][\A field \in SortFields :
             handleSort(field) =>
                 IF table.sortField = field
                 THEN /\ table'.sortField = field
                      /\ table'.sortDirection # table.sortDirection
                 ELSE /\ table'.sortField = field
                      /\ table'.sortDirection = "desc"]_vars

\* the second of two consecutive clicks on this header
SecondClickOn(field) ==
    /\ table.lastClick # <<>>
    /\ table.lastClick[1].header = field
    /\ handleSort(field)

\* C28 as stated: the sort machine, and two consecutive clicks on the same
\* header, whichever it is, restore the (field, direction) they found
C28_SortMachineAsStated ==
    /\ SortMachine
    /\ [][\A field \in SortFields :
             SecondClickOn(field) =>
                 /\ table'.sortField = table.lastClick[1].sortField
                 /\ table'.sortDirection = table.lastClick[1].sortDirection]_vars

\* C28: the sort machine; two consecutive clicks on the header of the
\* current sort field restore the (field, direction) they found, and two
\* consecutive clicks on another header leave that field with direction 'asc'
C28_SortMachine ==
    /\ SortMachine
    /\ [][\A field \in SortFields :
             SecondClickOn(field) =>
                 IF table.lastClick[1].sortField = field
                 THEN /\ table'.sortField = table.lastClick[1].sortField
                      /\ table'.sortDirection = table.lastClick[1].sortDirection
                 ELSE /\ table'.sortField = field
                      /\ table'.sortDirection = "asc"]_vars

\* the symbol header was clicked twice while the table was sorted by
\* percentage contribution, descending
C28_Witness ==
    /\ table.mounted
    /\ table.sortField = "symbol"
    /\ table.sortDirection = "asc"
    /\ table.lastClick # <<>>
    /\ table.lastClick[1] =
          [header |-> "symbol", sortField |-> "symbol", sortDirection |-> "desc"]

(***************************************************************************)
(* Engine: the Component-VaR decomposer (Euler allocation)                 *)
(*                                                                         *)
(* Quantities are exact fractions [num, den] of integers.  A weight vector *)
(* is given by its numerators over the common denominator (their sum); the *)
(* component formula is unchanged by that common factor, which cancels     *)
(* between w_i x (Sigma w)_i and sigma_p^2.                                *)
(***************************************************************************)
Positions == {1, 2}

MaxWeight == 3

MaxVariance == 2

Frac(num, den) == [num |-> num, den |-> den]

FracAdd(a, b) == Frac(a.num * b.den + b.num * a.den, a.den * b.den)

FracEq(a, b) == a.den # 0 /\ b.den # 0 /\ a.num * b.den = b.num * a.den

\* the sum of the fractions f[i], i in S
RECURSIVE FracSum(_, _)
FracSum(f, S) ==
    IF S = {} THEN Frac(0, 1)
    ELSE LET i == CHOOSE x \in S : TRUE
         IN  FracAdd(f[i], FracSum(f, S \ {i}))

RECURSIVE IntSum(_, _)
IntSum(f, S) ==
    IF S = {} THEN 0
    ELSE LET i == CHOOSE x \in S : TRUE
         IN  f[i] + IntSum(f, S \ {i})

\* (Sigma w)_i
SigmaW(cov, w) ==
    [i \in Positions |-> IntSum([j \in Positions |-> cov[i, j] * w[j]], Positions)]

\* sigma_p^2 = w' Sigma w
PortfolioVariance(cov, w) ==
    IntSum([i \in Positions |-> w[i] * SigmaW(cov, w)[i]], Positions)

Determinant(cov) == cov[1, 1] * cov[2, 2] - cov[1, 2] * cov[2, 1]

RidgeEpsilon == 1

\* a singular matrix gets the ridge epsilon on its diagonal
Regularized(cov) ==
    IF Determinant(cov) # 0 THEN cov
    ELSE [ij \in Positions \X Positions |->
             IF ij[1] = ij[2] THEN cov[ij] + RidgeEpsilon ELSE cov[ij]]

\* CVaR_i = w_i x (Sigma w)_i x TotalVaR, with no division by sigma_p^2
componentVaRUnscaled(cov, w, totalVaR) ==
    [i \in Positions |-> Frac(w[i] * SigmaW(cov, w)[i] * totalVaR, 1)]

\* CVaR_i = w_i x (Sigma w)_i / sigma_p^2 x TotalVaR
componentVaR(cov, w, totalVaR) ==
    [i \in Positions |->
        Frac(w[i] * SigmaW(cov, w)[i] * totalVaR, PortfolioVariance(cov, w))]

\* percentage contribution = CVaR_i / TotalVaR
percentageContribution(components, totalVaR) ==
    [i \in Positions |-> Frac(components[i].num, components[i].den * totalVaR)]

\* every holding has a positive weight
WeightVectors == [Positions -> 1..MaxWeight]

\* the symmetric positive-semidefinite matrices with small integer entries
CovarianceMatrices ==
    {cov \in [Positions \X Positions -> -MaxVariance..MaxVariance] :
        /\ cov[1, 2] = cov[2, 1]
        /\ cov[1, 1] >= 0
        /\ cov[2, 2] >= 0
        /\ Determinant(cov) >= 0}

\* total portfolio VaR, in dollars
TotalVaRs == {1, 7, 25}

InitDecomposer ==
    /\ InitFrontend
    /\ ResultsUnmounted
    /\ estimate = NoEstimate
    /\ decomposition \in
          {[computed |-> FALSE, weights |-> w, covariance |-> cov, totalVaR |-> t] :
              w \in WeightVectors, cov \in CovarianceMatrices, t \in TotalVaRs}

Decompose ==
    /\ ~decomposition.computed
    /\ LET cov == Regularized(decomposition.covariance)
           components ==
               componentVaR(cov, decomposition.weights, decomposition.totalVaR)
       IN  decomposition' =
               [computed |-> TRUE,
                weights |-> decomposition.weights,
                covariance |-> cov,
                totalVaR |-> decomposition.totalVaR,
                components |-> components,
                percentages |->
                    percentageContribution(components, decomposition.totalVaR)]
    /\ UNCHANGED <<storeVars, uiVars, estimate>>

NextDecomposer == Decompose

SpecDecomposer == InitDecomposer /\ [][NextDecomposer]_vars

FracLe(a, b) ==
    /\ a.den > 0
    /\ b.den > 0
    /\ a.num * b.den <= b.num * a.den

\* confidence levels, in percent
EngineConfidences == {50, 75, 90, 95, 99}

\* the standard-normal quantile z_c and the tail factor phi(z_c) / (1 - c),
\* in ten-thousandths
NormalTable ==
    [c \in EngineConfidences |->
        CASE c = 50 -> [z |-> 0, tail |-> 7979]
          [] c = 75 -> [z |-> 6745, tail |-> 12711]
          [] c = 90 -> [z |-> 12816, tail |-> 17550]
          [] c = 95 -> [z |-> 16449, tail |-> 20627]
          [] c = 99 -> [z |-> 23263, tail |-> 26652]]

TableScale == 10000

\* horizons whose square root is a whole number
EngineHorizons == {1, 4}

Sqrt(n) == CHOOSE r \in 0..n : r * r = n

MaxObservations == 4

\* horizon losses of the portfolio, in percent: realized ones for the
\* historical method, simulated ones for Monte Carlo
LossValues == -1..2

LossSamples == UNION {[1..n -> LossValues] : n \in 1..MaxObservations}

\* the k-th smallest of the losses
KthSmallest(losses, k) ==
    CHOOSE v \in {losses[i] : i \in 1..Len(losses)} :
        /\ Cardinality({i \in 1..Len(losses) : losses[i] < v}) < k
        /\ Cardinality({i \in 1..Len(losses) : losses[i] <= v}) >= k

\* at least 1 / (1 - confidence) observations
EnoughObservations(losses, c) == Len(losses) * (100 - c) >= 100

\* the loss such that a fraction 1 - c of the losses is worse
empiricalVaR(losses, c) ==
    Frac(KthSmallest(losses, (c * Len(losses) + 99) \div 100), 1)

\* the mean of all the losses
meanLoss(losses, var) ==
    Frac(IntSum([i \in 1..Len(losses) |-> losses[i]], 1..Len(losses)),
         Len(losses))

\* the mean of the losses at or beyond the VaR threshold
tailMean(losses, var) ==
    LET tail == {i \in 1..Len(losses) : losses[i] * var.den >= var.num}
    IN  Frac(IntSum([i \in tail |-> losses[i]], tail), Cardinality(tail))

\* VaR = -mu_T + z_c x sigma_T, with mu_T = mu x T and sigma_T = sigma x sqrt(T)
parametricVaR(mu, sigma, horizon, c) ==
    Frac(-(mu * horizon) * TableScale + NormalTable[c].z * sigma * Sqrt(horizon),
         TableScale)

\* ES = -mu_T + sigma_T x phi(z_c) / (1 - c)
parametricES(mu, sigma, horizon, c) ==
    Frac(-(mu * horizon) * TableScale + NormalTable[c].tail * sigma * Sqrt(horizon),
         TableScale)

\* loss_dollars = PortfolioValue x (1 - exp(-x))
Dollars(portfolioValue, x) == [portfolio_value |-> portfolioValue, log |-> x]

DollarsLe(a, b) ==
    /\ a.portfolio_value = b.portfolio_value
    /\ \/ a.portfolio_value > 0 /\ FracLe(a.log, b.log)
       \/ a.portfolio_value = 0
       \/ a.portfolio_value < 0 /\ FracLe(b.log, a.log)

\* shares and prices are positive
PortfolioValues == {1, 2500}

\* daily mean and volatility of the portfolio's log return, in percent
DailyMeans == -1..1

DailyVolatilities == 0..2

EstimatorInputs ==
    {[computed |-> FALSE, method |-> m, confidence |-> c, horizon_days |-> h,
      portfolio_value |-> pv, losses |-> l, mu |-> mu, sigma |-> sg] :
        m \in {"historical", "monte_carlo"}, c \in EngineConfidences,
        h \in EngineHorizons, pv \in PortfolioValues, l \in LossSamples,
        mu \in {0}, sg \in {0}}
    \cup
    {[computed |-> FALSE, method |-> m, confidence |-> c, horizon_days |-> h,
      portfolio_value |-> pv, losses |-> l, mu |-> mu, sigma |-> sg] :
        m \in {"parametric"}, c \in EngineConfidences,
        h \in EngineHorizons, pv \in PortfolioValues, l \in {<<>>},
        mu \in DailyMeans, sg \in DailyVolatilities}

InitEstimator ==
    /\ InitFrontend
    /\ ResultsUnmounted
    /\ decomposition = NoDecomposition
    /\ estimate \in EstimatorInputs

\* the ES response, or the InsufficientSampleError
ESResponse(in) ==
    IF in.method = "parametric"
    THEN LET var == parametricVaR(in.mu, in.sigma, in.horizon_days, in.confidence)
             es == parametricES(in.mu, in.sigma, in.horizon_days, in.confidence)
         IN  [computed |-> TRUE, failed |-> FALSE, method |-> in.method,
              var_log_return |-> var, es_log_return |-> es,
              var_dollars |-> Dollars(in.portfolio_value, var),
              es_dollars |-> Dollars(in.portfolio_value, es)]
    ELSE IF ~EnoughObservations(in.losses, in.confidence)
    THEN [computed |-> TRUE, failed |-> TRUE, method |-> in.method]
    ELSE LET var == empiricalVaR(in.losses, in.confidence)
             es == tailMean(in.losses, var)
         IN  [computed |-> TRUE, failed |-> FALSE, method |-> in.method,
              var_log_return |-> var, es_log_return |-> es,
              var_dollars |-> Dollars(in.portfolio_value, var),
              es_dollars |-> Dollars(in.portfolio_value, es)]

ComputeES ==
    /\ ~estimate.computed
    /\ estimate' = ESResponse(estimate)
    /\ UNCHANGED <<storeVars, uiVars, decomposition>>

NextEstimator == ComputeES

SpecEstimator == InitEstimator /\ [][NextEstimator]_vars

\* C19: in every ES response, whatever the method, confidence, horizon and
\* data, the Expected Shortfall is at least the VaR, as a log return and in
\* dollars
C19_EsAtLeastVar ==
    (estimate.computed /\ ~estimate.failed) =>
        /\ FracLe(estimate.var_log_return, estimate.es_log_return)
        /\ DollarsLe(estimate.var_dollars, estimate.es_dollars)

\* an ES response of an empirical method whose ES is strictly above a
\* positive VaR
C19_Witness ==
    /\ estimate.computed
    /\ ~estimate.failed
    /\ estimate.method = "monte_carlo"
    /\ estimate.var_log_return.num > 0
    /\ ~FracLe(estimate.es_log_return, estimate.var_log_return)

(***************************************************************************)
(* Specifications                                                          *)
(***************************************************************************)
ConfidenceValues == RangeInputValues(SliderMin, SliderMax, SliderStep)

\* the slider of RiskAnalysisPanel: min 0.9, max 0.99, step 0.01
AConfidenceValues ==
    RangeInputValues(Hundredths(90), Hundredths(99), Hundredths(1))

NextPortfolio ==
    \/ \E symbol \in CompanySymbols : SelectCompany(symbol)
    \/ ChangeCompany
    \/ \E typed \in TypedTexts : SetShares(typed)
    \/ SubmitAddHolding
    \/ \E symbol \in CompanySymbols : StartEdit(symbol)
    \/ \E typed \in TypedTexts : SetEditShares(typed)
    \/ SaveEdit
    \/ CancelEdit
    \/ \E symbol \in CompanySymbols : HandleRemove(symbol)
    \/ HandleClearAll

\* the portfolio builder alone
NextPortfolioBuilder ==
    \/ \E tab \in Tabs : SetActiveTab(tab)
    \/ NextPortfolio
    \/ Reload

SpecPortfolio == Init /\ [][NextPortfolioBuilder]_vars

\* the dashboard used with the panels' default parameters
NextDashboard ==
    \/ \E tab \in Tabs : SetActiveTab(tab)
    \/ NextPortfolio
    \/ \E m \in {"var", "es"} : SetMetric(m)
    \/ ClickCompute
    \/ ClickTryAgain
    \/ \E outcome \in Outcomes : SettleVar(outcome)
    \/ \E outcome \in Outcomes : SettleEs(outcome)
    \/ ClickAnalyze
    \/ \E outcome \in Outcomes : SettleRisk(outcome)
    \/ Reload

SpecDashboard == Init /\ [][NextDashboard]_vars

\* the horizon and lookback inputs of both panels and the backtest option
NextHorizon ==
    \/ ToggleBacktest
    \/ \E tab \in Tabs : SetActiveTab(tab)
    \/ \E typed \in TypedTexts : SetHorizonDays(typed)
    \/ \E typed \in TypedTexts : SetLookbackDays(typed)
    \/ ClickCompute
    \/ ClickTryAgain
    \/ \E outcome \in BasicOutcomes : SettleVar(outcome)
    \/ \E typed \in TypedTexts : SetAHorizonDays(typed)
    \/ \E typed \in TypedTexts : SetALookbackDays(typed)
    \/ ClickAnalyze
    \/ \E outcome \in BasicOutcomes : SettleRisk(outcome)
    \/ Reload

SpecHorizon == Init /\ [][NextHorizon]_vars

\* the confidence sliders of both panels
NextConfidence ==
    \/ \E tab \in Tabs : SetActiveTab(tab)
    \/ \E value \in ConfidenceValues : SetConfidence(value)
    \/ \E m \in {"var", "es"} : SetMetric(m)
    \/ ClickCompute
    \/ ClickTryAgain
    \/ \E outcome \in BasicOutcomes : SettleVar(outcome)
    \/ \E outcome \in BasicOutcomes : SettleEs(outcome)
    \/ \E value \in AConfidenceValues : SetAConfidence(value)
    \/ ClickAnalyze
    \/ \E outcome \in BasicOutcomes : SettleRisk(outcome)
    \/ Reload

SpecConfidence == Init /\ [][NextConfidence]_vars

\* the method selection and the Monte Carlo inputs of RiskMetricsPanel
NextMonteCarlo ==
    \/ \E tab \in Tabs : SetActiveTab(tab)
    \/ \E m \in Methods : SetMethod(m)
    \/ \E mode \in McModes : SetMcMode(mode)
    \/ \E typed \in TypedTexts : SetSimulations(typed)
    \/ \E typed \in TypedTexts : SetDfT(typed)
    \/ ClickCompute
    \/ ClickTryAgain
    \/ \E outcome \in BasicOutcomes : SettleVar(outcome)
    \/ Reload

SpecMonteCarlo == Init /\ [][NextMonteCarlo]_vars

\* the add-holding form and its ticker search
NextSearch ==
    \/ \E tab \in Tabs : SetActiveTab(tab)
    \/ \E query \in SearchTexts : ObserveUniverse(query)
    \/ \E outcome \in BasicOutcomes : SettleUniverse(outcome)
    \/ \E symbol \in CompanySymbols : SelectCompany(symbol)
    \/ ChangeCompany
    \/ \E typed \in TypedTexts : SetShares(typed)
    \/ SubmitAddHolding
    \/ Reload

SpecSearch == Init /\ [][NextSearch]_vars

\* the requests of the mutations and of the universe query
NextRetry ==
    \/ \E tab \in Tabs : SetActiveTab(tab)
    \/ \E query \in SearchTexts : ObserveUniverse(query)
    \/ \E outcome \in BasicOutcomes : SettleUniverse(outcome)
    \/ \E m \in {"var", "es"} : SetMetric(m)
    \/ ClickCompute
    \/ ClickTryAgain
    \/ \E outcome \in BasicOutcomes : SettleVar(outcome)
    \/ \E outcome \in BasicOutcomes : SettleEs(outcome)
    \/ ClickAnalyze
    \/ \E outcome \in BasicOutcomes : SettleRisk(outcome)
    \/ Reload

SpecRetry == Init /\ [][NextRetry]_vars

\* every operation of the model
Next ==
    \/ NextStore
    \/ NextRetry
    \/ NextDashboard
    \/ NextHorizon
    \/ NextConfidence
    \/ NextMonteCarlo

Spec == Init /\ [][Next]_vars

(***************************************************************************)
(* Claims about the requests sent                                          *)
(***************************************************************************)
\* the requests whose mutate call the mounted panels have made
SentByMetrics ==
    {m.variables[1] : m \in {x \in {varMutation, esMutation} : x.variables # <<>>}}

SentByAnalysis ==
    {m.variables[1] : m \in {x \in {riskMutation} : x.variables # <<>>}}

\* C3: no VaR, ES or risk-analysis request carries an empty holdings list, and
\* while the store has no holdings no mutation of either panel has been
\* started (the panels render only the empty state).
C3_NoRequestWithoutHoldings ==
    /\ \A r \in SentByMetrics \cup SentByAnalysis : r.holdings # <<>>
    /\ ~hasHoldings(holdings) =>
          /\ varMutation = IdleMutation
          /\ esMutation = IdleMutation
          /\ riskMutation = IdleMutation

\* the portfolio was emptied after having been saved and a panel is open
C3_Witness ==
    /\ storage.stored
    /\ ~hasHoldings(holdings)
    /\ activeTab \in {"metrics", "analysis"}

\* C4: every request sent has horizon_days equal to an integer >= 1.
C4_HorizonIntegerAtLeastOne ==
    \A r \in SentByMetrics \cup SentByAnalysis :
        IsInteger(r.horizon_days) /\ Le(N(1), r.horizon_days)

\* C5: every monte_carlo request that carries df_t carries an integer df_t >= 3.
C5_DfTIntegerAtLeastThree ==
    \A r \in SentByMetrics :
        "df_t" \in DOMAIN r => IsInteger(r.df_t) /\ Le(N(3), r.df_t)

McFields == {"mc_mode", "simulations", "df_t"}

\* C6: a request built by handleCompute has the fields mc_mode, simulations
\* and df_t if and only if its method is 'monte_carlo'; otherwise it has none
\* of the three.
C6_McFieldsIffMonteCarlo ==
    \A r \in SentByMetrics :
        IF r.method = "monte_carlo"
        THEN McFields \subseteq DOMAIN r
        ELSE McFields \cap DOMAIN r = {}

\* a parametric request was sent after the Monte Carlo inputs had been edited
C6_Witness ==
    /\ varMutation.variables # <<>>
    /\ varMutation.status = "pending"
    /\ varMutation.variables[1].method = "parametric"
    /\ method = "parametric"
    /\ simulations # DEFAULT_simulations
    /\ dfT # DEFAULT_df_t
    /\ mcMode = "student_t"

\* the min attribute of the simulations input
SimulationsMin == N(10000)

\* C7: every monte_carlo request has simulations equal to an integer not below
\* the minimum (and not above a maximum).
C7_SimulationsBounded ==
    \A r \in SentByMetrics :
        r.method = "monte_carlo" =>
            IsInteger(r.simulations) /\ Le(SimulationsMin, r.simulations)

\* C8: the confidence state of both panels stays within [0.90, 0.99] and the
\* confidence of every request sent lies strictly between 0 and 1.
C8_ConfidenceInRange ==
    /\ Le(Hundredths(90), confidence) /\ Le(confidence, Hundredths(99))
    /\ Le(Hundredths(90), aConfidence) /\ Le(aConfidence, Hundredths(99))
    /\ \A r \in SentByMetrics \cup SentByAnalysis :
          Gt(r.confidence, N(0)) /\ Gt(N(1), r.confidence)

\* a request was sent with the slider moved to its upper end
C8_Witness ==
    /\ varMutation.variables # <<>>
    /\ varMutation.variables[1].confidence = Hundredths(99)
    /\ confidence = Hundredths(90)

(***************************************************************************)
(* Claims about the HTTP client                                            *)
(***************************************************************************)
Mutations == {varMutation, esMutation, riskMutation}

FailedMutations == {m \in Mutations : m.outcome # <<>> /\ ~m.outcome[1].ok}

NonEmpty(opt) == opt # <<>> /\ opt[1] # ""

\* the message the claim gives for an HTTP error response
MessageForResponse(e) ==
    LET body == e.response[1].data
    IN  IF NonEmpty(body.detail) THEN body.detail[1]
        ELSE IF NonEmpty(body.error) THEN body.error[1]
        ELSE e.message

\* every failed request rejects: the mutation is in error, without data
FailuresReject ==
    \A m \in FailedMutations : m.status = "error" /\ m.data = <<>> /\ m.error # <<>>

\* C10 as stated: detail, else error field, else transport message for an HTTP
\* error response; the fixed network-error text whenever no response was
\* received; every failure rejects.
C10_ErrorMessageAsStated ==
    /\ FailuresReject
    /\ \A m \in FailedMutations :
          LET e == m.outcome[1].cause[1]
          IN  IF e.response # <<>> THEN m.error[1] = MessageForResponse(e)
              ELSE m.error[1] = NetworkErrorText

\* C10 amended: the fixed network-error text when the request was made and no
\* response was received; the original error's message when the request could
\* not be set up.
C10_ErrorMessage ==
    /\ FailuresReject
    /\ \A m \in FailedMutations :
          LET e == m.outcome[1].cause[1]
          IN  IF e.response # <<>> THEN m.error[1] = MessageForResponse(e)
              ELSE IF e.request THEN m.error[1] = NetworkErrorText
              ELSE m.error[1] = e.message

\* C11: when a request fails with an error response that lists symbols, the
\* error the panel receives names every one of those symbols, and the failed
\* mutation holds no result data.
TextNames(text, symbol) ==
    <<text, symbol>> \in {<<"No price history for ZZZZ", "ZZZZ">>}

C11_UnknownSymbolsNamed ==
    \A m \in FailedMutations :
        LET e == m.outcome[1].cause[1]
        IN  (e.response # <<>> /\ e.response[1].data.symbols # <<>>) =>
                /\ m.data = <<>>
                /\ m.error # <<>>
                /\ \A i \in 1..Len(e.response[1].data.symbols) :
                       TextNames(m.error[1], e.response[1].data.symbols[i])

\* a step that leaves this mutation pending in a new state has sent a request
SendsRequest(before, after) == after # before /\ after.status = "pending"

\* C12: every mutate call is followed by exactly one HTTP request, also when
\* that request fails; a step sends a request of a mutation only when it is a
\* click on Compute, Try Again or Analyze; a fetch of the universe query sends
\* at most two requests (one retry).
C12_NoAutomaticRetry ==
    /\ [](\A m \in Mutations : m.variables # <<>> => m.requests = 1)
    /\ [](universeQuery.requests <= 2)
    /\ [][(\/ SendsRequest(varMutation, varMutation')
           \/ SendsRequest(esMutation, esMutation')
           \/ SendsRequest(riskMutation, riskMutation'))
            => (ClickCompute \/ ClickTryAgain \/ ClickAnalyze)]_vars

\* a VaR request has failed and ended its mutation after one request, and a
\* fetch of the universe query has failed after its retry
C12_Witness ==
    /\ varMutation.status = "error"
    /\ varMutation.failureCount = 1
    /\ varMutation.requests = 1
    /\ universeQuery.status = "error"
    /\ universeQuery.requests = 2

\* the array has one {symbol, shares} object per entry of the map, in the
\* map's order
ArrayOfStore(array, m) ==
    /\ Len(array) = Len(m)
    /\ \A i \in 1..Len(m) :
          /\ DOMAIN array[i] = {"symbol", "shares"}
          /\ array[i].symbol = m[i].symbol
          /\ array[i].shares = m[i].shares

\* C22: the holdings array of every request sent by handleCompute or
\* handleAnalyze is the store's holdings at the moment of the click, one
\* object per map entry in insertion order, and hasHoldings() is true
\* exactly when that array is not empty
C22_RequestHoldsStore ==
    /\ [](hasHoldings(holdings) <=> getHoldingsArray(holdings) # <<>>)
    /\ [][(ClickCompute \/ ClickTryAgain) =>
             LET sent == IF metric = "var" THEN varMutation' ELSE esMutation'
             IN  /\ ArrayOfStore(sent.variables[1].holdings, holdings)
                 /\ hasHoldings(holdings) <=> (sent.variables[1].holdings # <<>>)]_vars
    /\ [][ClickAnalyze =>
             /\ ArrayOfStore(riskMutation'.variables[1].holdings, holdings)
             /\ hasHoldings(holdings)
                   <=> (riskMutation'.variables[1].holdings # <<>>)]_vars

\* an analysis request is in flight for a portfolio in which M was added
\* before AB and AB was given other shares afterwards
C22_Witness ==
    /\ riskMutation.status = "pending"
    /\ riskMutation.variables[1].holdings =
          <<[symbol |-> <<"M">>, shares |-> N(7)],
            [symbol |-> <<"A", "B">>, shares |-> Fixed((5 * Scale) \div 2)]>>

\* C23: while the risk-analysis mutation is pending the ANALYZE RISK button
\* is disabled, and no step starts a second analysis request before the
\* first one has succeeded or failed
C23_OneAnalysisAtATime ==
    /\ []((riskMutation.status = "pending") => analysisIsLoading)
    /\ [][(riskMutation.status = "pending")
             => ~SendsRequest(riskMutation, riskMutation')]_vars

\* C24: in RiskMetricsPanel at most one VaR/ES request is in flight: the two
\* mutations are never pending together, and no step sends a request while
\* varMutation or esMutation is pending
C24_OneMetricsRequestInFlight ==
    /\ [](~(varMutation.status = "pending" /\ esMutation.status = "pending"))
    /\ [][isLoading => (/\ ~SendsRequest(varMutation, varMutation')
                        /\ ~SendsRequest(esMutation, esMutation'))]_vars

\* C25: RiskMetricsPanel displays an error only if the most recent request
\* for the selected metric failed; it never shows an error together with a
\* result
C25_ErrorOfSelectedMetricOnly ==
    (MetricsFormShown /\ error # <<>>) =>
        /\ (IF metric = "var" THEN varMutation ELSE esMutation).status = "error"
        /\ data = <<>>

\* C30: universeService.search is never called with the empty string: a
\* request of the universe query is in flight or was sent only for a key
\* whose text is not empty, and no step sends one for the empty text, also
\* after the debounced text has gone back to '' or a company was selected
C30_NoEmptySearch ==
    /\ []((universeQuery.status = "pending" \/ universeQuery.requests > 0)
            => (universeQuery.key # <<>> /\ Len(universeQuery.key[1]) > 0))
    /\ [](universeQuery.key = <<<<>>>> => universeQuery.status = "idle")
    /\ [][(universeQuery'.requests > universeQuery.requests
             \/ SendsRequest(universeQuery, universeQuery'))
            => (universeQuery'.key # <<>> /\ Len(universeQuery'.key[1]) > 0)]_vars

\* a company was selected and added, the search box is shown again, the
\* debounced text is '' and nothing is fetched
C30_Witness ==
    /\ TickerSearchShown
    /\ hasHoldings(holdings)
    /\ universeQuery.key = <<<<>>>>
    /\ universeQuery.status = "idle"
    /\ universeQuery.requests = 0

\* C15: every step that sends a risk-analysis request sends include_es = true,
\* include_llm_recommendations = false and include_backtest equal to the
\* boolean state of the backtest checkbox at the click.
C15_AnalysisFlags ==
    [][SendsRequest(riskMutation, riskMutation') =>
          LET r == riskMutation'.variables[1]
          IN  /\ r.include_es = TRUE
              /\ r.include_llm_recommendations = FALSE
              /\ r.include_backtest = JSBool(BacktestBoxChecked)]_vars

\* an HTTP error whose body has an empty detail and an error field has been
\* delivered, another request failed without a response
C10_Witness ==
    /\ varMutation.status = "error"
    /\ varMutation.outcome[1].cause[1].response # <<>>
    /\ varMutation.outcome[1].cause[1].response[1].data.detail = <<"">>
    /\ varMutation.outcome[1].cause[1].response[1].data.error = <<"UnknownSymbolError">>
    /\ varMutation.error = <<"UnknownSymbolError">>
    /\ esMutation.status = "error"
    /\ esMutation.error = <<NetworkErrorText>>

====
